---- MODULE Spec2Model ----
(***************************************************************************)
(* Model of the shared utilities of the space-emissions calculators:       *)
(*   - EOEmissionCalculator._create_grid            (eocalc/methods/base)   *)
(*   - TropomiMonthlyMeanAggregator._create_grid    (eocalc/methods/temis)  *)
(*   - the source grid of MultiSourceCalculator.run (eocalc/methods/fioletov)*)
(*   - EOEmissionCalculator._combine_uncertainties  (eocalc/methods/base)   *)
(*   - EOEmissionCalculator._create_gnfr_table      (eocalc/methods/base)   *)
(*   - run() of the five calculators: validation gate, state and progress, *)
(*     month cache, bias bins, solver and returned value                   *)
(*     (eocalc/methods/dummy, random, fluky, temis, fioletov)              *)
(*                                                                         *)
(* Coordinates and cell sizes are exact numbers on a lattice: one unit is  *)
(* a tick of 0.1 degree.  Python floats are modelled by exact arithmetic,  *)
(* so rounding noise of the float operations is outside the model.         *)
(***************************************************************************)
EXTENDS Integers, Sequences, FiniteSets, TLC

\* ---------------------------------------------------------------- bounds
\* Region bounds range over -MaxCoord..MaxCoord ticks.
MaxCoord == 3
\* Cell width and height range over -1..MaxSize ticks (0 and -1 are the
\* invalid sizes).
MaxSize == 3
\* add_region_offset components range over None and 0..MaxOffset ticks.
MaxOffset == 1
\* The Series passed to _combine_uncertainties have at most MaxLen elements,
\* values in -MaxVal..MaxVal and uncertainties in -1..MaxUnc, or missing.
MaxLen == 2
MaxVal == 2
MaxUnc == 2
\* The dates of a run() request lie at most Margin days away from the first
\* or the last day MultiSourceCalculator accepts.
Margin == 1
\* A month's file holds at most MaxObs observations.
MaxObs == 1
\* The dates given to a DateRange are the days 0..MaxDay.
MaxDay == 4

\* ------------------------------------------------------- program constants
\* resolution_lon, resolution_lat = 0.2, 0.2 degrees = 2 ticks
resolution_lon == 2
resolution_lat == 2

\* Python's None; an optional number x that is present is the tuple <<x>>.
None == <<>>

VARIABLES
  callee,             \* the function that is called
  pc,                 \* "call" before the call, "done" after it
  region,             \* region.bounds as [minx, miny, maxx, maxy]
  width, height,      \* cell size arguments of _create_grid
  snap,               \* snap argument of _create_grid
  include_center_col, \* include_center_col argument of _create_grid
  add_region_offset,  \* add_region_offset argument of MultiSourceCalculator.run
  resolution,         \* resolution argument of MultiSourceCalculator.run
  grid,               \* outcome of the grid construction
  values,             \* values argument of _combine_uncertainties
  uncertainties,      \* uncertainties argument of _combine_uncertainties
  result,             \* outcome of _combine_uncertainties
  calc,               \* class of the calculator instance
  state,              \* self._state
  progress,           \* self._progress
  request,            \* region, period and pollutant arguments of run
  day,                \* the day the loop over the period is at
  cache,              \* month keys of the files read so far, in reading order
  df_obs,             \* the observations read so far
  solution,           \* what scipy.sparse.linalg.lsqr returned
  outcome,            \* what run or _create_gnfr_table returned or raised
  bias_grid,          \* bias_grid of MultiSourceCalculator.run
  bias_per_obs,       \* bias_per_obs of MultiSourceCalculator.run
  instances,          \* the calculator instances that run concurrently
  loads,              \* the reads of month files by the instances, in their order
  date_range,         \* the attributes of a DateRange object
  date_outcome        \* what the last operation on the DateRange gave

gridVars == <<region, width, height, snap, include_center_col, add_region_offset, resolution, grid>>

uncVars == <<values, uncertainties, result>>

runVars == <<calc, state, progress, request, day, cache, df_obs, solution, outcome>>

biasVars == <<bias_grid, bias_per_obs>>

sharedVars == <<instances, loads>>

dateVars == <<date_range, date_outcome>>

otherVars == <<biasVars, sharedVars, dateVars>>

vars == <<callee, pc, gridVars, uncVars, runVars, otherVars>>

\* ------------------------------------------------------ Python arithmetic
\* a % b of Python: the result has the sign of the divisor b (b # 0).
PyMod(a, b) == IF b > 0 THEN a % b ELSE -((-a) % (-b))

\* floor(a / b) for b # 0.
FloorDiv(a, b) == IF b > 0 THEN a \div b ELSE (-a) \div (-b)

\* math.ceil(a / b) for b # 0.
CeilDiv(a, b) == -FloorDiv(-a, b)

\* int(a / b): truncation towards zero, b # 0.
IntDiv(a, b) == IF FloorDiv(a, b) >= 0 THEN FloorDiv(a, b) ELSE CeilDiv(a, b)

\* list(range(n)) as a sequence 0, 1, ..., n-1; empty for n <= 0.
Range(n) == [k \in 1..n |-> k - 1]

\* ------------------------------------------------------------- outcomes
ZeroDivisionError == [kind |-> "ZeroDivisionError"]

NoGrid == [kind |-> "none"]

GeoDataFrame(features) == [kind |-> "grid", features |-> features]

\* One grid cell: the polygon (long, lat), (long + width, lat),
\* (long + width, lat + height), (long, lat + height), (long, lat).  The center
\* "lat + height / 2 / long + width / 2" is kept doubled to stay on the lattice.
Feature(long, lat, w, h, center) ==
  [west |-> long, south |-> lat, east |-> long + w, north |-> lat + h,
   center |-> IF center THEN <<2 * lat + h, 2 * long + w>> ELSE None]

\* GridRows with the loops exchanged: column after column.
RECURSIVE GridRows_columns(_, _, _, _, _, _, _, _)
GridRows_columns(from, ys, xs, min_long, min_lat, w, h, center) ==
  IF from > Len(xs) THEN <<>>
  ELSE [j \in 1..Len(ys) |->
          Feature(min_long + xs[from] * w, min_lat + ys[j] * h, w, h, center)]
       \o GridRows_columns(from + 1, ys, xs, min_long, min_lat, w, h, center)

\* The nested generator loops: rows from ys[from] on, each row running over xs.
RECURSIVE GridRows(_, _, _, _, _, _, _, _)
GridRows(from, ys, xs, min_long, min_lat, w, h, center) ==
  IF from > Len(ys) THEN <<>>
  ELSE [i \in 1..Len(xs) |->
          Feature(min_long + xs[i] * w, min_lat + ys[from] * h, w, h, center)]
       \o GridRows(from + 1, ys, xs, min_long, min_lat, w, h, center)

\* EOEmissionCalculator._create_grid
create_grid(reg, w, h, snp, center) ==
  IF snp /\ (h = 0 \/ w = 0) THEN ZeroDivisionError
  ELSE
    LET min_lat  == IF snp THEN reg.miny - PyMod(reg.miny, h) ELSE reg.miny
        max_lat  == IF snp THEN reg.maxy + PyMod(reg.maxy, h) ELSE reg.maxy
        min_long == IF snp THEN reg.minx - PyMod(reg.minx, w) ELSE reg.minx
        max_long == IF snp THEN reg.maxx + PyMod(reg.maxx, w) ELSE reg.maxx
    IN IF h = 0 THEN ZeroDivisionError
       ELSE
         LET ys == Range(CeilDiv(max_lat - min_lat, h))
         IN IF Len(ys) > 0 /\ w = 0 THEN ZeroDivisionError
            ELSE
              LET xs == IF w = 0 THEN <<>> ELSE Range(CeilDiv(max_long - min_long, w))
              IN GeoDataFrame(GridRows(1, ys, xs, min_long, min_lat, w, h, center))

\* TropomiMonthlyMeanAggregator._create_grid
temis_create_grid(reg, w, h, snp, center) ==
  IF snp /\ (h = 0 \/ w = 0) THEN ZeroDivisionError
  ELSE
    LET min_lat  == IF snp THEN reg.miny - PyMod(reg.miny, h) ELSE reg.miny
        max_lat  == IF snp THEN reg.maxy + h - PyMod(reg.maxy, h) ELSE reg.maxy
        min_long == IF snp THEN reg.minx - PyMod(reg.minx, w) ELSE reg.minx
        max_long == IF snp THEN reg.maxx + w - PyMod(reg.maxx, w) ELSE reg.maxx
    IN IF h = 0 THEN ZeroDivisionError
       ELSE
         LET ys == Range(IntDiv(max_lat - min_lat, h) + 1)
         IN IF Len(ys) > 0 /\ w = 0 THEN ZeroDivisionError
            ELSE
              LET xs == IF w = 0 THEN <<>> ELSE Range(IntDiv(max_long - min_long, w) + 1)
              IN GeoDataFrame(GridRows(1, ys, xs, min_long, min_lat, w, h, center))

\* numpy.arange(start, stop, step) for step > 0.
arange(start, stop, step) == [k \in 1..CeilDiv(stop - start, step) |-> start + (k - 1) * step]

\* numpy.meshgrid(lons, lats): two arrays of shape (len(lats), len(lons)).
meshgrid(lons, lats) ==
  <<[j \in 1..Len(lats) |-> [i \in 1..Len(lons) |-> lons[i]]],
    [j \in 1..Len(lats) |-> [i \in 1..Len(lons) |-> lats[j]]]>>

\* ndarray.ravel() of a two-dimensional array (C order: row after row).
RECURSIVE ravel(_)
ravel(a) == IF a = <<>> THEN <<>> ELSE Head(a) \o ravel(Tail(a))

TypeError == [kind |-> "TypeError"]

\* The field of sources of MultiSourceCalculator.run: the extent, the cell
\* centres (source_df) and the cell polygons (gp_sources).
source_grid(reg, off) ==
  IF off[1] # None /\ off[2] = None THEN TypeError
  ELSE
    LET min_lat  == IF off[2] = None THEN reg.miny ELSE reg.miny - off[2][1]
        max_lat  == IF off[2] = None THEN reg.maxy ELSE reg.maxy + off[2][1]
        min_long == IF off[1] = None THEN reg.minx ELSE reg.minx - off[1][1]
        max_long == IF off[1] = None THEN reg.maxx ELSE reg.maxx + off[2][1]
        lons     == arange(min_long, max_long, resolution_lon)
        lats     == arange(min_lat, max_lat, resolution_lat)
        meshed   == meshgrid(lons, lats)
        grid_lon == ravel(meshed[1])
        grid_lat == ravel(meshed[2])
    IN [kind |-> "grid",
        min_long |-> min_long, max_long |-> max_long,
        min_lat |-> min_lat, max_lat |-> max_lat,
        lons |-> lons, lats |-> lats,
        features |-> [k \in 1..Len(grid_lon) |->
                        [west  |-> grid_lon[k] - resolution_lon \div 2,
                         east  |-> grid_lon[k] + resolution_lon \div 2,
                         south |-> grid_lat[k] - resolution_lat \div 2,
                         north |-> grid_lat[k] + resolution_lat \div 2,
                         lon   |-> grid_lon[k],
                         lat   |-> grid_lat[k]]]]

\* ------------------------------------------------------- pandas Series
\* A float that is missing (numpy.nan); a float x that is present is <<x>>.
NaN == <<>>

\* A Series: the index labels and, position by position, the data.
Series(index, data) == [index |-> index, data |-> data]

\* The default index of a Series of n elements: 0, 1, ..., n-1.
RangeIndex(n) == [k \in 1..n |-> k - 1]

\* Series.reset_index(drop=True)
reset_index(s) == Series(RangeIndex(Len(s.data)), s.data)

\* Series.sum(): the sum of the data that are not missing, 0 if there are none.
RECURSIVE sum(_)
sum(data) ==
  IF data = <<>> THEN 0
  ELSE (IF Head(data) = NaN THEN 0 ELSE Head(data)[1]) + sum(Tail(data))

\* The labels of a set, in ascending order.
RECURSIVE Sorted(_)
Sorted(labels) ==
  IF labels = {} THEN <<>>
  ELSE LET m == CHOOSE x \in labels : \A y \in labels : x <= y
       IN <<m>> \o Sorted(labels \ {m})

\* s[label], missing when the label is not in the index of s.
Lookup(s, label) ==
  IF \E i \in 1..Len(s.index) : s.index[i] = label
  THEN s.data[CHOOSE i \in 1..Len(s.index) : s.index[i] = label]
  ELSE NaN

\* a.multiply(b, fill_value=fill): the Series are aligned on their labels; a
\* value missing on one side only is replaced by fill_value.
multiply(a, b, fill_value) ==
  LET labels == {a.index[i] : i \in 1..Len(a.index)} \cup {b.index[i] : i \in 1..Len(b.index)}
      index  == IF a.index = b.index THEN a.index ELSE Sorted(labels)
      Cell(l) == LET x == Lookup(a, l)
                     y == Lookup(b, l)
                 IN IF x = NaN /\ y = NaN THEN NaN
                    ELSE <<(IF x = NaN THEN fill_value ELSE x[1])
                           * (IF y = NaN THEN fill_value ELSE y[1])>>
  IN Series(index, [k \in 1..Len(index) |-> Cell(index[k])])

\* square without the exponent: the products themselves.
square_identity(s) == s

\* s ** 2
square(s) == Series(s.index, [k \in 1..Len(s.data) |->
                                IF s.data[k] = NaN THEN NaN ELSE <<s.data[k][1] * s.data[k][1]>>])

\* -------------------------------------------------------- real results
Sign(x) == IF x > 0 THEN 1 ELSE IF x < 0 THEN -1 ELSE 0

RECURSIVE GCD(_, _)
GCD(a, b) == IF b = 0 THEN a ELSE GCD(b, a % b)

\* The real number sgn * sqrt(p / q), with p / q in lowest terms.
Real(sgn, p, q) == [sgn |-> sgn, p |-> p, q |-> q]

\* The integer k as a real number.
Num(k) == Real(Sign(k), k * k, 1)

\* n ** 0.5 / d for n >= 0 and d # 0.
SqrtOver(n, d) ==
  IF n = 0 THEN Num(0)
  ELSE LET g == GCD(n, d * d) IN Real(Sign(d), n \div g, (d * d) \div g)

ValueError(message) == [kind |-> "ValueError", message |-> message]

Return(value) == [kind |-> "return", value |-> value]

NoResult == [kind |-> "none"]

\* any_invalid without the test for missing uncertainties.
any_invalid_negative_only(uncs) ==
  \E i \in 1..Len(uncs.data) : uncs.data[i] # NaN /\ uncs.data[i][1] < 0

\* (uncertainties.values < 0).any() or uncertainties.isnull().values.any()
any_invalid(uncs) ==
  \/ \E i \in 1..Len(uncs.data) : uncs.data[i] # NaN /\ uncs.data[i][1] < 0
  \/ \E i \in 1..Len(uncs.data) : uncs.data[i] = NaN

\* length_mismatch that sees only values longer than the uncertainties.
length_mismatch_longer_values(vals, uncs) == Len(vals.data) > Len(uncs.data)

\* len(values) != len(uncertainties)
length_mismatch(vals, uncs) == Len(vals.data) # Len(uncs.data)

\* EOEmissionCalculator._combine_uncertainties
combine_uncertainties(vals, uncs) ==
  IF Len(vals.data) = 0 \/ Len(uncs.data) = 0
  THEN ValueError("Neither values nor uncertainties may be empty.")
  ELSE IF length_mismatch(vals, uncs)
  THEN ValueError("List of values need to have the same length as the list of uncertainties.")
  ELSE IF any_invalid(uncs)
  THEN ValueError("All uncertainties need to be positive real numbers.")
  ELSE IF sum(vals.data) = 0
  THEN Return(Num(0))
  ELSE LET v == reset_index(vals)
           u == reset_index(uncs)
       IN Return(SqrtOver(sum(square(multiply(v, u, 0)).data), sum(v.data)))


\* ------------------------------------------------------------ calculators
\* eocalc.methods.base.Status
READY == "ready"

RUNNING == "running"

\* The members of eocalc.context.Pollutant.
Pollutant == {"NOx", "SO2", "NH3", "PM2_5"}

\* Pollutant.NO2, the member MultiSourceCalculator.supports and test_validate
\* refer to; the enum of eocalc/context.py does not list it.
NO2 == "NO2"

\* The members of eocalc.context.GNFR in definition order.
GNFR ==
  <<"A_PublicPower", "B_IndustrialComb", "C_SmallComb", "D_IndProcess",
    "E_Fugitive", "F_Solvents", "G_RoadRail", "H_Shipping", "I_OffRoadMob",
    "J_AviLTO", "K_CivilAviCruise", "L_OtherWasteDisp", "M_WasteWater",
    "N_WasteIncin", "O_AgriLivestock", "P_AgriOther", "Q_AgriWastes",
    "R_Other", "S_Natural", "T_IntAviCruise", "z_Memo">>

\* The concrete calculators.
Dummy == "DummyEOEmissionCalculator"

Random == "random.RandomEOEmissionCalculator"

Fluky == "fluky.RandomEOEmissionCalculator"

Temis == "TropomiMonthlyMeanAggregator"

MultiSource == "MultiSourceCalculator"

Calculators == {Dummy, Random, Fluky, Temis, MultiSource}

\* Dates are day numbers relative to 2019-06-01, so that
\* date.fromisoformat("2019-06-01") is 0 and a timedelta's .days is a difference.
date_min == -737210

date_max == 2914848

\* minimum_area_size() [km²]
minimum_area_size(c) ==
  CASE c = Dummy -> 0
    [] c = Random -> 1
    [] c = Fluky -> 1
    [] c = Temis -> 10^5
    [] c = MultiSource -> 10^4

\* minimum_period_length() [days]
minimum_period_length(c) ==
  CASE c = Dummy -> 0
    [] c = Random -> 1
    [] c = Fluky -> 1
    [] c = Temis -> 1
    [] c = MultiSource -> 1

\* earliest_start_date(); 2018-02-01 is day -485.
earliest_start_date(c) ==
  CASE c = Dummy -> date_min
    [] c = Random -> date_min
    [] c = Fluky -> date_min
    [] c = Temis -> -485
    [] c = MultiSource -> 0

\* latest_end_date(); 2019-07-01 is day 30.  The date of
\* TropomiMonthlyMeanAggregator depends on date.today() and no run() reads it.
latest_end_date(c) ==
  CASE c = Dummy -> date_max
    [] c = Random -> date_max
    [] c = Fluky -> date_max
    [] c = MultiSource -> 30

\* supports(pollutant); a pollutant that is present is the tuple <<name>>.
supports(c, pollutant) ==
  CASE c \in {Dummy, Random, Fluky} -> pollutant # None
    [] c = Temis -> pollutant = <<"NOx">>
    [] c = MultiSource -> pollutant = <<NO2>>

\* DateRange.__len__ without the end day.
DateRangeLen_exclusive(period) == period.end - period.start

\* DateRange.__len__: (end - start).days + 1
DateRangeLen(period) == (period.end - period.start) + 1

\* The key f"{day:%Y-%m-%d}", a key per day, given as the day number.
month_cache_key_daily(d) == d

\* f"{day:%Y-%m}" for the days of May, June and July 2019.
month_cache_key(d) ==
  IF d < 0 THEN "2019-05" ELSE IF d < 30 THEN "2019-06" ELSE "2019-07"

AssertionError(message) == [kind |-> "AssertionError", message |-> message]

\* The assert statements at the head of random.RandomEOEmissionCalculator.run,
\* in their order; None when all of them pass.
random_asserts(req) ==
  IF ~supports(Random, req.pollutant)
  THEN <<AssertionError("Pollutant not supported!")>>
  ELSE IF ~(req.period.end - req.period.start >= minimum_period_length(Random))
  THEN <<AssertionError("Time span too short!")>>
  ELSE IF ~(req.period.start >= earliest_start_date(Random))
  THEN <<AssertionError("Method cannot be used for period starting on start!")>>
  ELSE IF ~(req.period.end <= latest_end_date(Random))
  THEN <<AssertionError("Method cannot be used for period ending on end!")>>
  ELSE None

\* EOEmissionCalculator._validate(region, period, pollutant): None when the
\* request passes, otherwise the ValueError it raises.  req.covered is
\* cls.covers(region) and req.area the area of the region in km².
validate(c, req) ==
  IF /\ req.covered
     /\ req.area >= minimum_area_size(c)
     /\ DateRangeLen(req.period) >= minimum_period_length(c)
     /\ req.period.start >= earliest_start_date(c)
     /\ req.period.end <= latest_end_date(c)
     /\ supports(c, req.pollutant)
  THEN None
  ELSE <<ValueError("validation")>>

\* A pandas DataFrame: row labels, column labels and the cells row by row.
DataFrame(index, columns, data) ==
  [type |-> "DataFrame", index |-> index, columns |-> columns, data |-> data]

\* DataFrame(index=..., columns=..., data=value): every cell holds the value.
FilledFrame(index, columns, value) ==
  DataFrame(index, columns,
            [i \in 1..Len(index) |-> [j \in 1..Len(columns) |-> value]])

\* DataFrame.append(other) for frames with the same columns.
append(a, b) == DataFrame(a.index \o b.index, a.columns, a.data \o b.data)

\* _create_gnfr_table with the cells pre-filled with 0 instead of n/a.
create_gnfr_table_zero(pollutant) ==
  LET cols == <<<<pollutant, " emissions [kt]">>, <<"Umin [%]">>, <<"Umax [%]">>>>
  IN append(FilledFrame(GNFR, cols, <<0>>), FilledFrame(<<"Totals">>, cols, <<0>>))

\* EOEmissionCalculator._create_gnfr_table(pollutant); the column name
\* f"{pollutant.name} emissions [kt]" is the pair of its two parts.
create_gnfr_table(pollutant) ==
  LET cols == <<<<pollutant, " emissions [kt]">>, <<"Umin [%]">>, <<"Umax [%]">>>>
  IN append(FilledFrame(GNFR, cols, NaN), FilledFrame(<<"Totals">>, cols, NaN))

\* A returned dict and a returned int.
Dict(items) == [type |-> "dict", items |-> items]

PyInt(n) == [type |-> "int", int |-> n]

Raised(kind) == [kind |-> kind]

NoOutcome == [kind |-> "none"]

\* An observation of the TROPOMI subset: longitude and latitude in half ticks
\* (0.05 degree) and the vertical column density.
Observation(lon2, lat2, vcd) == [lon2 |-> lon2, lat2 |-> lat2, vcd |-> vcd]

\* numpy.floor((df_obs[lat_var] - min_lat) / resolution_lat).astype(int) and the
\* same for the longitude, added to the observations as columns iy and ix.
bias_bins(obs, g) ==
  [k \in 1..Len(obs) |->
     [lon2 |-> obs[k].lon2, lat2 |-> obs[k].lat2, vcd |-> obs[k].vcd,
      iy |-> FloorDiv(obs[k].lat2 - 2 * g.min_lat, 2 * resolution_lat),
      ix |-> FloorDiv(obs[k].lon2 - 2 * g.min_long, 2 * resolution_lon)]]

\* The decimal digits of n >= 0 as character codes ('0' is 48).
RECURSIVE Digits(_)
Digits(n) == IF n < 10 THEN <<48 + n>> ELSE Append(Digits(n \div 10), 48 + (n % 10))

\* '%i' % n as character codes ('-' is 45).
PercentI(n) == IF n < 0 THEN <<45>> \o Digits(-n) ELSE Digits(n)

\* The group key '%i_%i' % (iy, ix) of an observation ('_' is 95).
iy_ix(o) == PercentI(o.iy) \o <<95>> \o PercentI(o.ix)

\* a < b for two str: the first differing character decides, a proper prefix
\* is smaller.
RECURSIVE StrLess(_, _)
StrLess(a, b) ==
  IF b = <<>> THEN FALSE
  ELSE IF a = <<>> THEN TRUE
  ELSE IF a[1] # b[1] THEN a[1] < b[1]
  ELSE StrLess(Tail(a), Tail(b))

\* The keys of groupby with sort=False: in the order of their first appearance.
groupby_keys_unsorted(obs) ==
  LET first == {k \in 1..Len(obs) : \A j \in 1..(k - 1) : iy_ix(obs[j]) # iy_ix(obs[k])}
  IN [i \in 1..Cardinality(first) |->
        iy_ix(obs[CHOOSE k \in first : Cardinality({j \in first : j < k}) = i - 1])]

\* The index of df_obs.groupby('iy_ix'): the distinct keys, sorted as str.
groupby_keys(obs) ==
  LET keys == {iy_ix(obs[k]) : k \in 1..Len(obs)}
  IN [i \in 1..Cardinality(keys) |->
        CHOOSE key \in keys : Cardinality({other \in keys : StrLess(other, key)}) = i - 1]

\* The rows of a group, in the order of df_obs.
group(obs, key) == SelectSeq(obs, LAMBDA o : iy_ix(o) = key)

\* Series.quantile(.05) with linear interpolation, times 20: the value at the
\* position 0.05 * (n - 1) of the sorted values.
quantile_05(v) ==
  LET s  == SortSeq(v, LAMBDA a, b : a < b)
      lo == (Len(s) - 1) \div 20
      fr == (Len(s) - 1) % 20
  IN 20 * s[lo + 1] + (IF fr = 0 THEN 0 ELSE fr * (s[lo + 2] - s[lo + 1]))

\* The position on an axis of length n that numpy gives the index i, for
\* -n <= i < n.
numpy_index(i, n) == IF i < 0 THEN i + n ELSE i

\* bias_grid after the first idx groups are written: bias_grid[iy, ix] =
\* bias_grouped[vcd_var][idx], the groups taken in the order of the index.
RECURSIVE write_bias(_, _, _, _)
write_bias(obs, keys, g, idx) ==
  IF idx = 0
  THEN [iy \in 1..Len(g.lats) |-> [ix \in 1..Len(g.lons) |-> NaN]]
  ELSE LET before == write_bias(obs, keys, g, idx - 1)
           rows   == group(obs, keys[idx])
           iy     == numpy_index(rows[1].iy, Len(g.lats)) + 1
           ix     == numpy_index(rows[1].ix, Len(g.lons)) + 1
           bias   == quantile_05([k \in 1..Len(rows) |-> rows[k].vcd])
       IN [before EXCEPT ![iy][ix] = <<bias>>]

\* bias_grid[df_obs['iy'], df_obs['ix']]: the bias of each observation.
lookup_bias(bg, obs, g) ==
  [k \in 1..Len(obs) |->
     bg[numpy_index(obs[k].iy, Len(g.lats)) + 1][numpy_index(obs[k].ix, Len(g.lons)) + 1]]

\* bias_grid[df_obs['iy'], df_obs['ix']] is defined: numpy accepts the indices
\* -n .. n-1 on an axis of length n.
bias_index_ok(obs, g) ==
  \A k \in 1..Len(obs) :
     /\ obs[k].iy \in -Len(g.lats)..(Len(g.lats) - 1)
     /\ obs[k].ix \in -Len(g.lons)..(Len(g.lons) - 1)

\* The status flag istop of scipy.sparse.linalg.lsqr: 0 the exact solution is
\* x = 0, 1 and 2 an approximate solution was found, 3 the condition number
\* is too large, 4 to 6 the same within machine precision, 7 the iteration
\* limit was reached.
Istop == 0..7

\* ------------------------------------------------------- requests to run
\* The days around the first and the last day MultiSourceCalculator accepts.
Dates ==
  {earliest_start_date(MultiSource) + k : k \in -Margin..Margin}
    \cup {latest_end_date(MultiSource) + k : k \in -Margin..Margin}

\* A DateRange has start <= end.
Periods == {p \in [start : Dates, end : Dates] : p.start <= p.end}

\* Areas around the minimum areas of the calculators.
Areas == {0, 1, 10^4 - 1, 10^4}

Pollutants == {None} \cup {<<p>> : p \in Pollutant \cup {NO2}}

Requests == [covered : BOOLEAN, area : Areas, period : Periods, pollutant : Pollutants]

NoRequest == [covered |-> FALSE, area |-> 0, period |-> [start |-> 0, end |-> 0], pollutant |-> None]

\* The region of the requests: two source cells wide, one high.
RunRegion == [minx |-> 0, miny |-> 0, maxx |-> 4, maxy |-> 2]

\* What a month's file can hold: observations of the region, one near its
\* south-west corner, one three quarters of a cell further east with another
\* column density, one in the eastern half, one in its north-east corner, and
\* one just west of the region.
RunObservations ==
  {Observation(2 * RunRegion.minx + 1, 2 * RunRegion.miny + 1, 1),
   Observation(2 * RunRegion.minx + 3, 2 * RunRegion.miny + 1, 3),
   Observation(2 * RunRegion.minx + 5, 2 * RunRegion.miny + 1, 2),
   Observation(2 * RunRegion.maxx, 2 * RunRegion.maxy, 1),
   Observation(2 * RunRegion.minx - 1, 2 * RunRegion.miny + 1, 5)}

MonthlyObservations ==
  UNION {[1..n -> RunObservations] : n \in 0..MaxObs}

\* No bias grid, no concurrent instances and no DateRange object.
NoOther ==
  /\ bias_grid = <<>>
  /\ bias_per_obs = <<>>
  /\ instances = <<>>
  /\ loads = <<>>
  /\ date_range = [start |-> None, end |-> None]
  /\ date_outcome = NoOutcome

\* No calculator in the specifications of the pure functions.
NoRun ==
  /\ calc = "EOEmissionCalculator"
  /\ state = READY
  /\ progress = 0
  /\ request = NoRequest
  /\ day = 0
  /\ cache = <<>>
  /\ df_obs = <<>>
  /\ solution = None
  /\ outcome = NoOutcome
  /\ NoOther

\* ---------------------------------------------------------- state machine
Coords == -MaxCoord..MaxCoord

Regions == {r \in [minx : Coords, miny : Coords, maxx : Coords, maxy : Coords] :
              r.minx <= r.maxx /\ r.miny <= r.maxy}

Sizes == -1..MaxSize

Offsets == {None} \cup {<<o>> : o \in 0..MaxOffset}

\* The resolution argument of run: (cell width, cell height) in ticks.
Resolutions == (1..MaxSize) \X (1..MaxSize)

InitGrid ==
  /\ pc = "call"
  /\ region \in Regions
  /\ grid = NoGrid
  /\ values = Series(<<>>, <<>>)
  /\ uncertainties = Series(<<>>, <<>>)
  /\ result = NoResult
  /\ NoRun
  /\ \/ /\ callee \in {"_create_grid", "temis._create_grid"}
        /\ width \in Sizes
        /\ height \in Sizes
        /\ snap \in BOOLEAN
        /\ include_center_col \in BOOLEAN
        /\ add_region_offset = <<None, None>>
        /\ resolution = <<resolution_lon, resolution_lat>>
     \/ /\ callee = "run"
        /\ width = resolution_lon
        /\ height = resolution_lat
        /\ snap = FALSE
        /\ include_center_col = FALSE
        /\ add_region_offset \in Offsets \X Offsets
        /\ resolution \in Resolutions

CreateGrid ==
  /\ pc = "call"
  /\ callee = "_create_grid"
  /\ grid' = create_grid(region, width, height, snap, include_center_col)
  /\ pc' = "done"
  /\ UNCHANGED <<otherVars, callee, region, width, height, snap, include_center_col, add_region_offset, resolution, uncVars, runVars>>

TemisCreateGrid ==
  /\ pc = "call"
  /\ callee = "temis._create_grid"
  /\ grid' = temis_create_grid(region, width, height, snap, include_center_col)
  /\ pc' = "done"
  /\ UNCHANGED <<otherVars, callee, region, width, height, snap, include_center_col, add_region_offset, resolution, uncVars, runVars>>

\* Step 1 of MultiSourceCalculator.run: create the field of sources.
RunSourceGrid ==
  /\ pc = "call"
  /\ callee = "run"
  /\ grid' = source_grid(region, add_region_offset)
  /\ pc' = "done"
  /\ UNCHANGED <<otherVars, callee, region, width, height, snap, include_center_col, add_region_offset, resolution, uncVars, runVars>>

NextGrid == CreateGrid \/ TemisCreateGrid \/ RunSourceGrid

SpecGrid == InitGrid /\ [][NextGrid]_vars

\* The inputs of _combine_uncertainties.
Lengths == 0..MaxLen

ValueCells == {NaN} \cup {<<v>> : v \in -MaxVal..MaxVal}

UncertaintyCells == {NaN} \cup {<<u>> : u \in -1..MaxUnc}

\* Index labels of a Series of n elements: the default index, other labels in
\* the same order ('A', 'B', ...) and the default labels in reverse order.
Indexes(n) == {RangeIndex(n), [k \in 1..n |-> 100 + k], [k \in 1..n |-> n - k]}

AllSeries(cells) ==
  UNION {{Series(i, d) : i \in Indexes(n), d \in [1..n -> cells]} : n \in Lengths}

InitUnc ==
  /\ pc = "call"
  /\ callee = "_combine_uncertainties"
  /\ region = [minx |-> 0, miny |-> 0, maxx |-> 0, maxy |-> 0]
  /\ width = 1
  /\ height = 1
  /\ snap = FALSE
  /\ include_center_col = FALSE
  /\ add_region_offset = <<None, None>>
  /\ resolution = <<resolution_lon, resolution_lat>>
  /\ grid = NoGrid
  /\ values \in AllSeries(ValueCells)
  /\ uncertainties \in AllSeries(UncertaintyCells)
  /\ result = NoResult
  /\ NoRun

CombineUncertainties ==
  /\ pc = "call"
  /\ callee = "_combine_uncertainties"
  /\ result' = combine_uncertainties(values, uncertainties)
  /\ pc' = "done"
  /\ UNCHANGED <<otherVars, callee, gridVars, values, uncertainties, runVars>>

NextUnc == CombineUncertainties

SpecUnc == InitUnc /\ [][NextUnc]_vars

\* --------------------------------------------------------------- run()
\* The gate at the head of run: None when the request passes, otherwise the
\* exception.  random.RandomEOEmissionCalculator asserts, the other two call
\* self._validate(region, period, pollutant).
gate(c, req) ==
  CASE c = Random -> random_asserts(req)
    [] c \in {Fluky, MultiSource} -> validate(c, req)

\* head_of_run with the state set before the gate is passed.
head_of_run_state_first(c, req, st) ==
  IF gate(c, req) # None
  THEN [pc |-> "raised", state |-> RUNNING, outcome |-> gate(c, req)[1]]
  ELSE [pc |-> "running", state |-> RUNNING, outcome |-> NoOutcome]

\* The first statements of run: the gate, then self._state = Status.RUNNING.
head_of_run(c, req, st) ==
  IF gate(c, req) # None
  THEN [pc |-> "raised", state |-> st, outcome |-> gate(c, req)[1]]
  ELSE [pc |-> "running", state |-> RUNNING, outcome |-> NoOutcome]

\* for sector in GNFR: data.loc[sector] = [random.random()*100, ...]
random_rows(table) ==
  DataFrame(table.index, table.columns,
            [i \in 1..Len(table.index) |->
               IF \E k \in 1..Len(GNFR) : GNFR[k] = table.index[i]
               THEN [j \in 1..Len(table.columns) |-> <<"random.random()">>]
               ELSE table.data[i]])

\* data.loc["Totals"] = data.sum(axis=0): the row is overwritten, or added
\* when the table has none.
set_totals(table) ==
  LET sums == [j \in 1..Len(table.columns) |-> <<"data.sum(axis=0)">>]
  IN IF \E i \in 1..Len(table.index) : table.index[i] = "Totals"
     THEN DataFrame(table.index, table.columns,
                    [i \in 1..Len(table.index) |->
                       IF table.index[i] = "Totals" THEN sums ELSE table.data[i]])
     ELSE DataFrame(Append(table.index, "Totals"), table.columns,
                    Append(table.data, sums))

\* tools.read_subset_data(region, tools.assure_data_availability(region, day)):
\* the provider supplies the observations of the month or cannot.
read_subset_data ==
  {Raised("DataUnavailableError")} \cup {Return(o) : o \in MonthlyObservations}

\* The next day of "for day in period", or the end of the loop.
AfterDay(after) ==
  IF day = request.period.end
  THEN pc' = after /\ day' = day
  ELSE pc' = pc /\ day' = day + 1

InitRun ==
  /\ pc = "call"
  /\ region = RunRegion
  /\ width = resolution_lon
  /\ height = resolution_lat
  /\ snap = FALSE
  /\ include_center_col = FALSE
  /\ add_region_offset = <<None, None>>
  /\ resolution = <<resolution_lon, resolution_lat>>
  /\ grid = NoGrid
  /\ values = Series(<<>>, <<>>)
  /\ uncertainties = Series(<<>>, <<>>)
  /\ result = NoResult
  /\ state = READY
  /\ progress = 0
  /\ cache = <<>>
  /\ df_obs = <<>>
  /\ solution = None
  /\ outcome = NoOutcome
  /\ NoOther
  /\ \/ /\ callee = "EOEmissionCalculator.run"
        /\ calc \in Calculators
        /\ request \in Requests
     \/ /\ callee = "_create_gnfr_table"
        /\ calc = "EOEmissionCalculator"
        /\ request \in {r \in Requests : /\ r.covered
                                         /\ r.area = 0
                                         /\ r.period = [start |-> 0, end |-> 0]}
  /\ day = request.period.start

Running(c, at) ==
  /\ callee = "EOEmissionCalculator.run"
  /\ calc = c
  /\ pc = at

\* DummyEOEmissionCalculator.run up to the first time.sleep(1)
DummyStart ==
  /\ Running(Dummy, "call")
  /\ state' = RUNNING
  /\ progress' = 20
  /\ pc' = "running"
  /\ UNCHANGED <<otherVars, callee, gridVars, uncVars, calc, request, day, cache, df_obs, solution, outcome>>

\* self._progress = 50, self._progress = 80, each followed by time.sleep(1)
DummyProgress ==
  /\ Running(Dummy, "running")
  /\ progress \in {20, 50}
  /\ progress' = IF progress = 20 THEN 50 ELSE 80
  /\ UNCHANGED <<otherVars, callee, pc, gridVars, uncVars, calc, state, request, day, cache, df_obs, solution, outcome>>

DummyFinish ==
  /\ Running(Dummy, "running")
  /\ progress = 80
  /\ progress' = 0
  /\ state' = READY
  /\ outcome' = Return(PyInt(42))
  /\ pc' = "returned"
  /\ UNCHANGED <<otherVars, callee, gridVars, uncVars, calc, request, day, cache, df_obs, solution>>

\* random.RandomEOEmissionCalculator.run: the asserts and the state change
RandomStart ==
  /\ Running(Random, "call")
  /\ LET h == head_of_run(calc, request, state)
     IN /\ pc' = h.pc
        /\ state' = h.state
        /\ outcome' = h.outcome
  /\ UNCHANGED <<otherVars, callee, gridVars, uncVars, calc, progress, request, day, cache, df_obs, solution>>

RandomFinish ==
  /\ Running(Random, "running")
  /\ LET cols == <<<<request.pollutant[1], " [kt]">>, <<"Umin [%]">>, <<"Umax [%]">>>>
         data == set_totals(random_rows(FilledFrame(GNFR, cols, NaN)))
     IN outcome' = Return(Dict([totals |-> data, grid |-> region]))
  /\ state' = READY
  /\ pc' = "returned"
  /\ UNCHANGED <<otherVars, callee, gridVars, uncVars, calc, progress, request, day, cache, df_obs, solution>>

\* fluky.RandomEOEmissionCalculator.run: _validate, state and progress
FlukyStart ==
  /\ Running(Fluky, "call")
  /\ LET h == head_of_run(calc, request, state)
     IN /\ pc' = h.pc
        /\ state' = h.state
        /\ outcome' = h.outcome
        /\ progress' = IF h.pc = "raised" THEN progress ELSE 0
  /\ UNCHANGED <<otherVars, callee, gridVars, uncVars, calc, request, day, cache, df_obs, solution>>

FlukyFinish ==
  /\ Running(Fluky, "running")
  /\ LET data == set_totals(random_rows(create_gnfr_table(request.pollutant[1])))
         geo_data == [type |-> "GeoDataFrame",
                      columns |-> <<<<request.pollutant[1], " [kt]">>, <<"Umin [%]">>,
                                    <<"Umax [%]">>, <<"geometry">>>>,
                      geometry |-> <<region>>]
     IN outcome' = Return(Dict([totals |-> data, grid |-> geo_data]))
  /\ state' = READY
  /\ pc' = "returned"
  /\ UNCHANGED <<otherVars, callee, gridVars, uncVars, calc, progress, request, day, cache, df_obs, solution>>

\* TropomiMonthlyMeanAggregator.run, step 1.  The cells of the grid (bin_width
\* is 0.125 degree) stay local to run, which never returns them; they are not
\* part of the state.
TemisStart ==
  /\ Running(Temis, "call")
  /\ cache' = <<>>
  /\ pc' = "loading"
  /\ UNCHANGED <<otherVars, callee, gridVars, uncVars, calc, state, progress, request, day, df_obs, solution, outcome>>

\* Step 2, one day of the period: read_temis_data opens the month's file
\* unless the month is cached; the file may be missing.
TemisLoadDay ==
  /\ Running(Temis, "loading")
  /\ \/ /\ \A k \in 1..Len(cache) : cache[k] # month_cache_key(day)
        /\ \/ /\ cache' = Append(cache, month_cache_key(day))
              /\ AfterDay("aggregate")
              /\ UNCHANGED outcome
           \/ /\ outcome' = Raised("FileNotFoundError")
              /\ pc' = "raised"
              /\ UNCHANGED <<cache, day>>
     \/ /\ \E k \in 1..Len(cache) : cache[k] = month_cache_key(day)
        /\ AfterDay("aggregate")
        /\ UNCHANGED <<cache, outcome>>
  /\ UNCHANGED <<otherVars, callee, gridVars, uncVars, calc, state, progress, request, df_obs, solution>>

\* Steps 3 and 4: grid[:, -(len(period) + 1):-1] indexes a data frame with a
\* tuple of slices, which pandas rejects (TypeError or InvalidIndexError,
\* depending on its version).
TemisAggregate ==
  /\ Running(Temis, "aggregate")
  /\ \E e \in {"TypeError", "InvalidIndexError"} : outcome' = Raised(e)
  /\ pc' = "raised"
  /\ UNCHANGED <<otherVars, callee, gridVars, uncVars, calc, state, progress, request, day, cache, df_obs, solution>>

\* MultiSourceCalculator.run: _validate, state and progress, step 1
MultiSourceStart ==
  /\ Running(MultiSource, "call")
  /\ LET h == head_of_run(calc, request, state)
         g == source_grid(region, add_region_offset)
     IN IF h.pc = "raised"
        THEN /\ pc' = h.pc
             /\ state' = h.state
             /\ outcome' = h.outcome
             /\ UNCHANGED <<progress, grid>>
        ELSE /\ state' = h.state
             /\ progress' = 0
             /\ grid' = g
             /\ pc' = IF g.kind = "TypeError" THEN "raised" ELSE "loading"
             /\ outcome' = IF g.kind = "TypeError" THEN Raised("TypeError") ELSE h.outcome
  /\ cache' = <<>>
  /\ df_obs' = <<>>
  /\ UNCHANGED <<otherVars, callee, region, width, height, snap, include_center_col, add_region_offset,
                 resolution, uncVars, calc, request, day, solution>>

\* Step 2, one day of the period: the month is read unless its key is in the
\* cache.
MultiSourceLoadDay ==
  /\ Running(MultiSource, "loading")
  /\ \/ /\ \A k \in 1..Len(cache) : cache[k] # month_cache_key(day)
        /\ \E r \in read_subset_data :
             IF r.kind = "return"
             THEN /\ cache' = Append(cache, month_cache_key(day))
                  /\ df_obs' = df_obs \o r.value
                  /\ AfterDay("bias")
                  /\ UNCHANGED outcome
             ELSE /\ outcome' = r
                  /\ pc' = "raised"
                  /\ UNCHANGED <<cache, df_obs, day>>
     \/ /\ \E k \in 1..Len(cache) : cache[k] = month_cache_key(day)
        /\ AfterDay("bias")
        /\ UNCHANGED <<cache, df_obs, outcome>>
  /\ UNCHANGED <<otherVars, callee, gridVars, uncVars, calc, state, progress, request, solution>>

\* Steps 3.1 and 3.2: the bins of the observations and the lookup of their
\* bias, which raises IndexError for a bin outside bias_grid.
MultiSourceBias ==
  /\ Running(MultiSource, "bias")
  /\ df_obs' = bias_bins(df_obs, grid)
  /\ IF bias_index_ok(df_obs', grid)
     THEN /\ bias_grid' = write_bias(df_obs', groupby_keys(df_obs'), grid,
                                     Len(groupby_keys(df_obs')))
          /\ bias_per_obs' = lookup_bias(bias_grid', df_obs', grid)
          /\ pc' = "solve"
          /\ UNCHANGED outcome
     ELSE /\ pc' = "raised"
          /\ outcome' = Raised("IndexError")
          /\ UNCHANGED biasVars
  /\ UNCHANGED <<sharedVars, dateVars, callee, gridVars, uncVars, calc, state, progress, request, day, cache, solution>>

\* solution = scipy.sparse.linalg.lsqr(sA, b, damp=dampening_factor): x and the
\* status flag; which flag comes back depends on the numbers.
MultiSourceSolve ==
  /\ Running(MultiSource, "solve")
  /\ \E i \in Istop : solution' = <<[x |-> "x", istop |-> i]>>
  /\ pc' = "solved"
  /\ UNCHANGED <<otherVars, callee, gridVars, uncVars, calc, state, progress, request, day, cache, df_obs, outcome>>

\* The conversion of the solution and the returned dict; the statement
\* self._state = Status.READY before the return is commented out.
MultiSourceReturn ==
  /\ Running(MultiSource, "solved")
  /\ outcome' = Return(Dict([solution |-> solution[1],
                             emissions |-> "source_conversion * solution[0]",
                             gpd |-> grid]))
  /\ pc' = "returned"
  /\ UNCHANGED <<otherVars, callee, gridVars, uncVars, calc, state, progress, request, day, cache, df_obs, solution>>

\* A call of EOEmissionCalculator._create_gnfr_table(pollutant); None has no
\* attribute name.
CreateGnfrTable ==
  /\ pc = "call"
  /\ callee = "_create_gnfr_table"
  /\ outcome' = IF request.pollutant = None
                THEN Raised("AttributeError")
                ELSE Return(create_gnfr_table(request.pollutant[1]))
  /\ pc' = "done"
  /\ UNCHANGED <<otherVars, callee, gridVars, uncVars, calc, state, progress, request, day, cache, df_obs, solution>>

NextRun ==
  \/ DummyStart
  \/ DummyProgress
  \/ DummyFinish
  \/ RandomStart
  \/ RandomFinish
  \/ FlukyStart
  \/ FlukyFinish
  \/ TemisStart
  \/ TemisLoadDay
  \/ TemisAggregate
  \/ MultiSourceStart
  \/ MultiSourceLoadDay
  \/ MultiSourceBias
  \/ MultiSourceSolve
  \/ MultiSourceReturn
  \/ CreateGnfrTable

SpecRun == InitRun /\ [][NextRun]_vars

\* ------------------------------------------------- concurrent instances
\* Calculator instances of one class that run the same request at the same
\* time, each in a thread of its own.  A step of an instance is the head of
\* run or one day of its loop over the period; cache is a local variable of
\* run, so every instance has its own.  What follows the loop in run does not
\* touch the cache and is left to the specification of a single run.
Instances == {1, 2}

\* The requests of the concurrent runs: a covered region that is large enough,
\* any period, and the pollutant of either calculator.
SharedRequests ==
  {r \in Requests : r.covered /\ r.area = minimum_area_size(MultiSource)
                      /\ r.pollutant \in {<<"NOx">>, <<NO2>>}}

InitShared ==
  /\ pc = "call"
  /\ callee = "run, concurrently"
  /\ region = RunRegion
  /\ width = resolution_lon
  /\ height = resolution_lat
  /\ snap = FALSE
  /\ include_center_col = FALSE
  /\ add_region_offset = <<None, None>>
  /\ resolution = <<resolution_lon, resolution_lat>>
  /\ grid = NoGrid
  /\ values = Series(<<>>, <<>>)
  /\ uncertainties = Series(<<>>, <<>>)
  /\ result = NoResult
  /\ calc \in {Temis, MultiSource}
  /\ state = READY
  /\ progress = 0
  /\ request \in SharedRequests
  /\ day = request.period.start
  /\ cache = <<>>
  /\ df_obs = <<>>
  /\ solution = None
  /\ outcome = NoOutcome
  /\ bias_grid = <<>>
  /\ bias_per_obs = <<>>
  /\ instances = [i \in Instances |->
                    [pc |-> "call", state |-> READY,
                     day |-> request.period.start, cache |-> <<>>]]
  /\ loads = <<>>
  /\ date_range = [start |-> None, end |-> None]
  /\ date_outcome = NoOutcome

\* The head of run in instance i: TropomiMonthlyMeanAggregator goes straight
\* to its loop, MultiSourceCalculator passes its gate first.
InstanceStart(i) ==
  /\ callee = "run, concurrently"
  /\ instances[i].pc = "call"
  /\ LET h == IF calc = Temis
              THEN [pc |-> "running", state |-> instances[i].state]
              ELSE head_of_run(calc, request, instances[i].state)
     IN instances' = [instances EXCEPT
                        ![i].pc = IF h.pc = "raised" THEN "raised" ELSE "loading",
                        ![i].state = h.state,
                        ![i].cache = <<>>]
  /\ UNCHANGED <<callee, pc, gridVars, uncVars, runVars, biasVars, loads, dateVars>>

\* One day of the loop in instance i: the month's file is read unless the key
\* of the month is in the cache of the instance; reading may fail.
InstanceLoadDay(i) ==
  /\ callee = "run, concurrently"
  /\ instances[i].pc = "loading"
  /\ LET me   == instances[i]
         key  == month_cache_key(me.day)
         next == IF me.day = request.period.end
                 THEN [me EXCEPT !.pc = "loaded"]
                 ELSE [me EXCEPT !.day = me.day + 1]
     IN \/ /\ \A k \in 1..Len(me.cache) : me.cache[k] # key
           /\ \/ /\ loads' = Append(loads, [instance |-> i, key |-> key, read |-> TRUE])
                 /\ instances' = [instances EXCEPT
                                    ![i] = [next EXCEPT !.cache = Append(me.cache, key)]]
              \/ /\ loads' = Append(loads, [instance |-> i, key |-> key, read |-> FALSE])
                 /\ instances' = [instances EXCEPT ![i].pc = "raised"]
        \/ /\ \E k \in 1..Len(me.cache) : me.cache[k] = key
           /\ instances' = [instances EXCEPT ![i] = next]
           /\ UNCHANGED loads
  /\ UNCHANGED <<callee, pc, gridVars, uncVars, runVars, biasVars, dateVars>>

NextShared ==
  \/ \E i \in Instances : InstanceStart(i)
  \/ \E i \in Instances : InstanceLoadDay(i)

SpecShared == InitShared /\ [][NextShared]_vars

\* ------------------------------------------------------------ DateRange
\* The strings given to a DateRange: the ISO format of a day, or a string
\* that is not a date.
IsoDate(d) == [iso |-> TRUE, day |-> d]

NotADate == [iso |-> FALSE, day |-> 0]

DateInputs == {NotADate} \cup {IsoDate(d) : d \in 0..MaxDay}

\* A DateRange object without attributes.
NewObject == [start |-> None, end |-> None]

\* __setattr__ with the order test also rejecting end = start.
setattr_strict(obj, key, value) ==
  IF ~value.iso
  THEN [obj |-> obj, raised |-> <<ValueError("Invalid isoformat string")>>]
  ELSE LET o == [obj EXCEPT ![key] = <<value.day>>]
       IN IF o.start # None /\ o.end # None /\ o.end[1] <= o.start[1]
          THEN [obj |-> o, raised |-> <<ValueError("Invalid date range")>>]
          ELSE [obj |-> o, raised |-> None]

\* DateRange.__setattr__(self, key, value): date.fromisoformat(value) raises
\* ValueError for a string that is not a date; otherwise the attribute is set,
\* and then ValueError is raised if both attributes exist and end < start.
\* The result is the object after the call and the exception, if any.
setattr(obj, key, value) ==
  IF ~value.iso
  THEN [obj |-> obj, raised |-> <<ValueError("Invalid isoformat string")>>]
  ELSE LET o == [obj EXCEPT ![key] = <<value.day>>]
       IN IF o.start # None /\ o.end # None /\ o.end[1] < o.start[1]
          THEN [obj |-> o, raised |-> <<ValueError("Invalid date range")>>]
          ELSE [obj |-> o, raised |-> None]

\* DateRange.__init__(self, start, end): self.start = start; self.end = end
date_range_init(start, end) ==
  LET first == setattr(NewObject, "start", start)
  IN IF first.raised # None THEN first ELSE setattr(first.obj, "end", end)

\* The built-in len(obj): ValueError when __len__ returns a negative number.
builtin_len(obj) ==
  LET n == DateRangeLen([start |-> obj.start[1], end |-> obj.end[1]])
  IN IF n < 0 THEN [raised |-> <<ValueError("__len__() should return >= 0")>>, value |-> 0]
     ELSE [raised |-> None, value |-> n]

\* DateRange.__iter__:
\* [self.start + timedelta(days=count) for count in range(len(self))]
date_range_iter(obj) ==
  LET n == builtin_len(obj)
  IN IF n.raised # None THEN [raised |-> n.raised, value |-> <<>>]
     ELSE [raised |-> None,
           value |-> [k \in 1..n.value |-> obj.start[1] + Range(n.value)[k]]]

\* What an operation on a DateRange gave: the operation, its arguments, the
\* exception or "return", and the returned value.
DateOutcome(op, args, raised, value) ==
  [op |-> op, args |-> args,
   kind |-> IF raised = None THEN "return" ELSE raised[1].kind,
   value |-> value]

InitDate ==
  /\ pc = "new"
  /\ callee = "DateRange"
  /\ region = [minx |-> 0, miny |-> 0, maxx |-> 0, maxy |-> 0]
  /\ width = 1
  /\ height = 1
  /\ snap = FALSE
  /\ include_center_col = FALSE
  /\ add_region_offset = <<None, None>>
  /\ resolution = <<resolution_lon, resolution_lat>>
  /\ grid = NoGrid
  /\ values = Series(<<>>, <<>>)
  /\ uncertainties = Series(<<>>, <<>>)
  /\ result = NoResult
  /\ NoRun

\* r = DateRange(start, end): when __init__ raises, r keeps what it held.
DateRangeInit ==
  /\ callee = "DateRange"
  /\ \E start, end \in DateInputs :
       LET r == date_range_init(start, end)
       IN /\ date_outcome' = DateOutcome("__init__", <<start, end>>, r.raised, <<>>)
          /\ IF r.raised = None
             THEN date_range' = r.obj /\ pc' = "object"
             ELSE UNCHANGED <<date_range, pc>>
  /\ UNCHANGED <<callee, gridVars, uncVars, runVars, biasVars, sharedVars>>

\* r.start = value and r.end = value
DateRangeSetattr ==
  /\ callee = "DateRange"
  /\ pc = "object"
  /\ \E key \in {"start", "end"}, value \in DateInputs :
       LET r == setattr(date_range, key, value)
       IN /\ date_range' = r.obj
          /\ date_outcome' = DateOutcome(key, <<value>>, r.raised, <<>>)
  /\ UNCHANGED <<callee, pc, gridVars, uncVars, runVars, biasVars, sharedVars>>

\* len(r)
DateRangeLenCall ==
  /\ callee = "DateRange"
  /\ pc = "object"
  /\ LET r == builtin_len(date_range)
     IN date_outcome' = DateOutcome("__len__", <<>>, r.raised, <<r.value>>)
  /\ UNCHANGED <<callee, pc, gridVars, uncVars, runVars, biasVars, sharedVars, date_range>>

\* list(r)
DateRangeIter ==
  /\ callee = "DateRange"
  /\ pc = "object"
  /\ LET r == date_range_iter(date_range)
     IN date_outcome' = DateOutcome("__iter__", <<>>, r.raised, r.value)
  /\ UNCHANGED <<callee, pc, gridVars, uncVars, runVars, biasVars, sharedVars, date_range>>

NextDate == DateRangeInit \/ DateRangeSetattr \/ DateRangeLenCall \/ DateRangeIter

SpecDate == InitDate /\ [][NextDate]_vars

Init == InitGrid \/ InitUnc \/ InitRun \/ InitShared \/ InitDate

Next == NextGrid \/ NextUnc \/ NextRun \/ NextShared \/ NextDate

Spec == Init /\ [][Next]_vars

\* ------------------------------------------------------------ properties
\* A call of the given function has returned or raised.
Done(f) == pc = "done" /\ callee = f

\* The sides of the region's bounding box.
ExtentX == region.maxx - region.minx

ExtentY == region.maxy - region.miny

Max(a, b) == IF a >= b THEN a ELSE b

Min(a, b) == IF a <= b THEN a ELSE b

\* Two cells share interior points.
Overlap(a, b) ==
  /\ Max(a.west, b.west) < Min(a.east, b.east)
  /\ Max(a.south, b.south) < Min(a.north, b.north)

NonOverlapping(f) == \A i, j \in 1..Len(f) : i # j => ~Overlap(f[i], f[j])

\* The cells cover the bounding box: every lattice point of the box lies in a
\* cell, and so does every lattice square of the box (cell corners are lattice
\* points, so a lattice square is covered only if one cell contains it).
Covers(f, r) ==
  /\ \A x \in r.minx..r.maxx, y \in r.miny..r.maxy :
        \E k \in 1..Len(f) : /\ f[k].west <= x /\ x <= f[k].east
                              /\ f[k].south <= y /\ y <= f[k].north
  /\ \A x \in r.minx..(r.maxx - 1), y \in r.miny..(r.maxy - 1) :
        \E k \in 1..Len(f) : /\ f[k].west <= x /\ x + 1 <= f[k].east
                              /\ f[k].south <= y /\ y + 1 <= f[k].north

\* C1: with snap = false and positive cell sizes, _create_grid (the shared one
\* and the override of the monthly-mean aggregator) returns exactly
\* ceil(extentX / width) * ceil(extentY / height) cells, also when an extent is
\* an exact multiple of the cell size.  (Stated for bounding boxes of positive
\* width and height; the degenerate ones are the subject of C3.)
C1_UnsnappedCellCount ==
  \A f \in {"_create_grid", "temis._create_grid"} :
    (Done(f) /\ ~snap /\ width > 0 /\ height > 0 /\ ExtentX > 0 /\ ExtentY > 0) =>
      /\ grid.kind = "grid"
      /\ Len(grid.features) = CeilDiv(ExtentX, width) * CeilDiv(ExtentY, height)

\* C2: with snap = true and positive cell sizes, _create_grid puts the
\* lower-left corner at (floor(minX / width) * width, floor(minY / height) *
\* height) and returns (ceil(maxX / width) - floor(minX / width)) *
\* (ceil(maxY / height) - floor(minY / height)) cells.
C2_SnappedCellCount ==
  (Done("_create_grid") /\ snap /\ width > 0 /\ height > 0) =>
    /\ grid.kind = "grid"
    /\ Len(grid.features) =
         (CeilDiv(region.maxx, width) - FloorDiv(region.minx, width))
         * (CeilDiv(region.maxy, height) - FloorDiv(region.miny, height))
    /\ Len(grid.features) > 0 =>
         /\ grid.features[1].west = FloorDiv(region.minx, width) * width
         /\ grid.features[1].south = FloorDiv(region.miny, height) * height

\* C3: for positive cell sizes _create_grid returns at least one cell, in
\* either snap mode and also for a bounding box of zero width or height.
C3_AtLeastOneCell ==
  (Done("_create_grid") /\ width > 0 /\ height > 0) =>
    (grid.kind = "grid" /\ Len(grid.features) >= 1)

\* C4: _create_grid called with width <= 0 or height <= 0 raises a
\* configuration error (ValueError); it returns no grid and raises no
\* arithmetic error.
C4_InvalidSizeRejected ==
  (Done("_create_grid") /\ (width <= 0 \/ height <= 0)) => grid.kind = "ValueError"

\* The number of cells in the bottom row of a non-empty grid.
RowLength(f) == Cardinality({k \in 1..Len(f) : f[k].south = f[1].south})

\* The lower-left corner the grid starts at.
StartLong == IF snap THEN FloorDiv(region.minx, width) * width ELSE region.minx

StartLat == IF snap THEN FloorDiv(region.miny, height) * height ELSE region.miny

\* C5: the cells are in row-major order, bottom row first and left to right
\* within a row: with nx cells per row, cell i (counted from 0) has its
\* lower-left corner i mod nx cells to the right of and i div nx cells above the
\* first cell, the first cell of _create_grid starts at (min_long, min_lat),
\* and the first cell is the bottom-left, the last cell the top-right one.  The
\* source grid of MultiSourceCalculator.run has the same order.
C5_RowMajorOrder ==
  \A c \in {"_create_grid", "temis._create_grid", "run"} :
    (Done(c) /\ width > 0 /\ height > 0 /\ grid.kind = "grid" /\ Len(grid.features) > 0) =>
      LET f  == grid.features
          nx == RowLength(f)
      IN /\ \A k \in 1..Len(f) :
              /\ f[k].west = f[1].west + ((k - 1) % nx) * width
              /\ f[k].south = f[1].south + ((k - 1) \div nx) * height
              /\ f[1].west <= f[k].west /\ f[1].south <= f[k].south
              /\ f[k].east <= f[Len(f)].east /\ f[k].north <= f[Len(f)].north
         /\ c # "run" => (f[1].west = StartLong /\ f[1].south = StartLat)

\* A grid of several rows and several columns has been built by _create_grid.
C5_Witness ==
  /\ Done("_create_grid") /\ width > 0 /\ height > 0 /\ snap
  /\ grid.kind = "grid"
  /\ Len(grid.features) >= 6
  /\ RowLength(grid.features) >= 2
  /\ Len(grid.features) > RowLength(grid.features)

\* C6: the cells of a grid are pairwise non-overlapping and together cover the
\* bounding box of the region, for _create_grid and for the source grid of
\* MultiSourceCalculator.run.  (Stated for bounding boxes of positive width and
\* height and for run without add_region_offset, which is the default call.)
C6_DisjointCover ==
  \A c \in {"_create_grid", "run"} :
    (/\ Done(c) /\ width > 0 /\ height > 0 /\ grid.kind = "grid"
     /\ ExtentX > 0 /\ ExtentY > 0 /\ add_region_offset = <<None, None>>) =>
      (NonOverlapping(grid.features) /\ Covers(grid.features, region))

\* The positions of values that are not missing.
Present(data) == {i \in 1..Len(data) : data[i] # NaN}

\* The sum of g[i] over the positions i of a finite set.
RECURSIVE SumOver(_, _)
SumOver(I, g) ==
  IF I = {} THEN 0
  ELSE LET i == CHOOSE x \in I : TRUE IN g[i] + SumOver(I \ {i}, g)

\* The sum of the values that are not missing.
ValueSum ==
  SumOver(Present(values.data), [i \in Present(values.data) |-> values.data[i][1]])

\* The sum of (value_i * u_i)^2 over the pairs whose value is not missing.
SquareSum ==
  SumOver(Present(values.data),
          [i \in Present(values.data) |->
             (values.data[i][1] * uncertainties.data[i][1])
             * (values.data[i][1] * uncertainties.data[i][1])])

\* Every uncertainty is a number >= 0.
ValidUncertainties ==
  \A i \in 1..Len(uncertainties.data) :
    uncertainties.data[i] # NaN /\ uncertainties.data[i][1] >= 0

SameLength == Len(values.data) = Len(uncertainties.data)

C9_ZeroSumReturnsZero ==
  (Done("_combine_uncertainties") /\ SameLength /\ ValidUncertainties /\ ValueSum = 0) =>
    result = Return(Num(0))

\* C10: _combine_uncertainties returns 0 and raises nothing when values is
\* empty, whether uncertainties is empty or not.
C10_EmptyValuesReturnZero ==
  (Done("_combine_uncertainties") /\ Len(values.data) = 0) => result = Return(Num(0))

RECURSIVE Keep(_, _)
Keep(data, mask) ==
  IF data = <<>> THEN <<>>
  ELSE (IF Head(mask) = NaN THEN <<>> ELSE <<Head(data)>>) \o Keep(Tail(data), Tail(mask))

WithoutMissing(s) ==
  LET d == Keep(s.data, values.data) IN Series(RangeIndex(Len(d)), d)

\* C12: for equal-length inputs with valid uncertainties the result is the one
\* for the inputs with every (missing value, uncertainty) pair removed, and it
\* is the one for the same data under the default index labels.
C12_MissingPairsExcluded ==
  (Done("_combine_uncertainties") /\ SameLength /\ ValidUncertainties) =>
    /\ result = combine_uncertainties(WithoutMissing(values), WithoutMissing(uncertainties))
    /\ result = combine_uncertainties(reset_index(values), reset_index(uncertainties))

\* The values with their signs removed.
AbsValues ==
  Series(values.index,
         [k \in 1..Len(values.data) |->
            IF values.data[k] = NaN THEN NaN
            ELSE <<IF values.data[k][1] < 0 THEN -values.data[k][1] ELSE values.data[k][1]>>])

\* C13: the result depends only on the magnitudes of the values: for values
\* that are all negative it is the result for their absolute values, and it is
\* never negative.
C13_MagnitudesOnly ==
  (Done("_combine_uncertainties") /\ SameLength /\ ValidUncertainties) =>
    /\ result.kind = "return" => result.value.sgn >= 0
    /\ (/\ Len(values.data) > 0
        /\ \A k \in 1..Len(values.data) : values.data[k] # NaN /\ values.data[k][1] < 0) =>
          result = combine_uncertainties(AbsValues, uncertainties)

\* ------------------------------------------------ properties of run()
\* The calculators whose run begins with a validation gate.
Gated == {Random, Fluky, MultiSource}

\* The conditions under which the gate is to accept a request.
GateConditions(c, req) ==
  /\ req.covered
  /\ req.area >= minimum_area_size(c)
  /\ (req.period.end - req.period.start) + 1 >= minimum_period_length(c)
  /\ req.period.start >= earliest_start_date(c)
  /\ req.period.end <= latest_end_date(c)
  /\ supports(c, req.pollutant)

\* run has passed its first statements.
Entered == callee = "EOEmissionCalculator.run" /\ pc # "call"

\* The gate has rejected the request: only the gate raises these exceptions.
Rejected == pc = "raised" /\ outcome.kind \in {"ValueError", "AssertionError"}

\* C14: the validation gate accepts a request exactly when the region is
\* covered and large enough, the period, counted with both its start and its
\* end day, is long enough and lies between the earliest start and the latest
\* end date, and the pollutant is supported; otherwise it raises.  A period as
\* long as the minimum is accepted.
C14_GateAcceptsExactly ==
  (Entered /\ calc \in Gated) => (~Rejected <=> GateConditions(calc, request))

\* C15: a run() that the validation gate rejects leaves the calculator as it
\* was: the state is Ready as before, the progress is unchanged, nothing was
\* loaded (no grid, no cached month, no observation), and nothing is solved or
\* returned.
C15_RejectionChangesNothing ==
  [][(callee = "EOEmissionCalculator.run" /\ pc = "call"
        /\ pc' = "raised" /\ outcome'.kind \in {"ValueError", "AssertionError"})
     => /\ state = READY
        /\ state' = READY
        /\ progress' = progress
        /\ grid' = grid /\ grid' = NoGrid
        /\ cache' = cache /\ cache' = <<>>
        /\ df_obs' = df_obs /\ df_obs' = <<>>
        /\ solution' = None]_vars

\* MultiSourceCalculator has rejected a request for a covered, large enough
\* region and its pollutant, because of the period.
C15_Witness ==
  /\ Rejected
  /\ calc = MultiSource
  /\ request.covered
  /\ request.area >= minimum_area_size(MultiSource)
  /\ request.pollutant = <<NO2>>

\* run is between its first statements and its end.
Executing == Entered /\ pc \notin {"returned", "raised"}

\* run has ended, by a return or by an exception.
Finished == Entered /\ pc \in {"returned", "raised"}

\* C16: a calculator is Ready before run(), Running while run() executes, and
\* Ready again whenever run() has ended, with a result or with a failure.
C16_ReadyRunningReady ==
  callee = "EOEmissionCalculator.run" =>
    /\ pc = "call" => state = READY
    /\ Executing => state = RUNNING
    /\ Finished => state = READY

\* C17: when the solver stops because it reached its iteration limit
\* (istop = 7), run() fails with a SolverDivergence error and returns neither
\* solution nor emissions.
C17_IterationCapRaises ==
  (calc = MultiSource /\ Finished /\ solution # None /\ solution[1].istop = 7)
    => outcome.kind = "SolverDivergenceError"

\* C18: every run() that returns, of every calculator, returns a mapping with
\* the key "totals", whose value is a table, and the key "grid".
C18_TotalsAndGrid ==
  (callee = "EOEmissionCalculator.run" /\ pc = "returned") =>
    /\ outcome.value.type = "dict"
    /\ {"totals", "grid"} \subseteq DOMAIN outcome.value.items
    /\ outcome.value.items.totals.type = "DataFrame"

\* ------------------------------------- properties of _create_gnfr_table
\* The table a call of _create_gnfr_table has returned.
Table == outcome.value

TableReturned == Done("_create_gnfr_table") /\ outcome.kind = "return"

\* The table has three columns, the emissions of the pollutant, Umin and Umax,
\* and every entry is undefined.
ThreeUndefinedColumns ==
  /\ Len(Table.columns) = 3
  /\ Table.columns[1][1] = request.pollutant[1]
  /\ Table.columns[2] = <<"Umin [%]">>
  /\ Table.columns[3] = <<"Umax [%]">>
  /\ Len(Table.data) = Len(Table.index)
  /\ \A i \in 1..Len(Table.data) :
       Len(Table.data[i]) = 3 /\ \A j \in 1..3 : Table.data[i][j] = NaN

InsidePolygon(o, f) ==
  /\ 2 * f.west < o.lon2 /\ o.lon2 < 2 * f.east
  /\ 2 * f.south < o.lat2 /\ o.lat2 < 2 * f.north

\* The bin (iy, ix) of the observation is the row and the column of the source
\* cell in the meshed grid.
BinIsCell(o, f) ==
  /\ o.iy \in 0..(Len(grid.lats) - 1)
  /\ o.ix \in 0..(Len(grid.lons) - 1)
  /\ grid.lats[o.iy + 1] = f.lat
  /\ grid.lons[o.ix + 1] = f.lon

\* MultiSourceCalculator.run has assigned the observations to their bins.
Binned == Running(MultiSource, "solve") \/ Running(MultiSource, "solved")
            \/ Running(MultiSource, "returned")

\* C20: the bias bin (iy, ix) of every observation that lies inside a polygon
\* of the source grid is the cell of that polygon.
C20_BinIsContainingCell ==
  Binned =>
    \A k \in 1..Len(df_obs) : \A c \in 1..Len(grid.features) :
       InsidePolygon(df_obs[k], grid.features[c])
         => BinIsCell(df_obs[k], grid.features[c])

\* MultiSourceCalculator.run is past the computation of the bias bins.
PastBias ==
  /\ callee = "EOEmissionCalculator.run"
  /\ calc = MultiSource
  /\ \/ pc \in {"solve", "solved", "returned"}
     \/ pc = "raised" /\ outcome.kind \notin {"ValueError", "DataUnavailableError", "TypeError"}

\* C21: when no bias bin is defined, because the months of the period hold no
\* observation, MultiSourceCalculator.run raises a data-insufficiency error
\* and the solver is not called.
C21_NoBiasBinRaises ==
  (PastBias /\ df_obs = <<>>) =>
    /\ pc = "raised"
    /\ outcome.kind = "DataInsufficiencyError"
    /\ solution = None

\* ------------------------------------- properties of concurrent instances
\* C22: the month cache is shared by the calculator instances and its first
\* population per region and calendar month is guarded by a lock: when two
\* instances run at the same time over the same region and month, the file of
\* that month is read at most once.
C22_LoadedAtMostOnce ==
  \A j, k \in 1..Len(loads) :
     (j # k /\ loads[j].read /\ loads[k].read) => loads[j].key # loads[k].key

\* ------------------------------------------------- properties of the totals
\* The sum over the cells of a returned grid of the cell's total emission: the
\* sum over the days of the per-area emission of the day times the cell area.
AreaWeightedSum(g) ==
  SumOver(1..Len(g.cells),
          [c \in 1..Len(g.cells) |->
             SumOver(1..Len(g.cells[c].daily),
                     [d \in 1..Len(g.cells[c].daily) |->
                        g.cells[c].daily[d] * g.cells[c].area])])

\* C23: a run of TropomiMonthlyMeanAggregator whose month files could all be
\* read reports under "totals" the sum over all clipped cells of the cell's
\* total emission, the sum over the days of the period of the per-area
\* emission of the day times the cell area.
C23_TotalIsAreaWeightedSum ==
  (callee = "EOEmissionCalculator.run" /\ calc = Temis /\ Finished
     /\ outcome.kind # "FileNotFoundError") =>
    /\ outcome.kind = "return"
    /\ outcome.value.type = "dict"
    /\ outcome.value.items.totals = AreaWeightedSum(outcome.value.items.grid)

\* ------------------------------------------------ properties of DateRange
\* The last operation on the DateRange was op.
DateOp(op) == callee = "DateRange" /\ date_outcome.kind # "none" /\ date_outcome.op = op

\* There is a DateRange object, and it has start <= end.
ValidDateRange ==
  /\ callee = "DateRange"
  /\ pc = "object"
  /\ date_range.start[1] <= date_range.end[1]

\* C24: constructing a DateRange with end before start raises ValueError, and
\* so does assigning start or end of a DateRange so that end would be before
\* start; with end on or after start, start = end included, nothing is raised.
C24_EndBeforeStartRaises ==
  /\ (DateOp("__init__") /\ date_outcome.args[1].iso /\ date_outcome.args[2].iso) =>
       (date_outcome.kind = "ValueError"
          <=> date_outcome.args[2].day < date_outcome.args[1].day)
  /\ (DateOp("start") /\ date_outcome.args[1].iso) =>
       (date_outcome.kind = "ValueError"
          <=> date_range.end[1] < date_outcome.args[1].day)
  /\ (DateOp("end") /\ date_outcome.args[1].iso) =>
       (date_outcome.kind = "ValueError"
          <=> date_outcome.args[1].day < date_range.start[1])

\* An assignment that puts start after end has been rejected.
C24_Witness ==
  /\ DateOp("start")
  /\ date_outcome.args[1].iso
  /\ date_outcome.kind = "ValueError"

\* C25: for a DateRange with start <= end, len() is the number of days from
\* start to end, both counted, and iterating yields that many dates: start
\* first, each next date one day later, end last.
C25_LenAndIter ==
  /\ (DateOp("__len__") /\ ValidDateRange) =>
       /\ date_outcome.kind = "return"
       /\ date_outcome.value[1] = date_range.end[1] - date_range.start[1] + 1
  /\ (DateOp("__iter__") /\ ValidDateRange) =>
       /\ date_outcome.kind = "return"
       /\ Len(date_outcome.value) = date_range.end[1] - date_range.start[1] + 1
       /\ date_outcome.value[1] = date_range.start[1]
       /\ date_outcome.value[Len(date_outcome.value)] = date_range.end[1]
       /\ \A k \in 1..(Len(date_outcome.value) - 1) :
            date_outcome.value[k + 1] = date_outcome.value[k] + 1

\* A DateRange of three days or more has been iterated.
C25_Witness ==
  /\ DateOp("__iter__")
  /\ ValidDateRange
  /\ Len(date_outcome.value) >= 3

\* C27: every DateRange object that can still be reached has start <= end,
\* whatever was constructed and assigned before: an assignment rejected with
\* ValueError leaves start and end as they were.
C27_StartNotAfterEnd ==
  (callee = "DateRange" /\ pc = "object") => date_range.start[1] <= date_range.end[1]

\* ------------------------------------------- properties of the month cache
\* The calendar month of a day of May, June or July 2019 (2019-06-01 is day 0).
CalendarMonth(d) == IF d < 0 THEN 5 ELSE IF d < 30 THEN 6 ELSE 7

\* The calendar months touched by the days from a to b.
MonthsTouched(a, b) == {CalendarMonth(d) : d \in a..b}

\* A run of a calculator that reads month files.
Loader == callee = "EOEmissionCalculator.run" /\ calc \in {Temis, MultiSource}

\* C26: within one run(), data is loaded once for each calendar month the
\* period touches, at the first day of the period that falls in the month and
\* so in chronological order; a day of a month already loaded loads nothing.
\* While the loop is at a day, the months loaded are those of the days before
\* it; after the loop they are the months of the period; and a day of the
\* loop reads a file exactly if it is the first day of the period or the first
\* day of its month.
C26_OneLoadPerMonth ==
  /\ [](/\ (Loader /\ pc = "loading") =>
             Len(cache) = Cardinality(MonthsTouched(request.period.start, day - 1))
        /\ (Loader /\ pc \in {"aggregate", "bias", "solve", "solved", "returned"}) =>
             Len(cache) = Cardinality(MonthsTouched(request.period.start,
                                                    request.period.end)))
  /\ [][(Loader /\ pc = "loading") =>
          ((Len(cache') = Len(cache) + 1 \/ pc' = "raised")
             <=> (day = request.period.start
                    \/ CalendarMonth(day) # CalendarMonth(day - 1)))]_vars

\* The loop of MultiSourceCalculator.run has ended after two loads for a
\* period of three days or more.
C26_Witness ==
  /\ callee = "EOEmissionCalculator.run"
  /\ calc = MultiSource
  /\ pc = "bias"
  /\ Len(cache) = 2
  /\ request.period.end - request.period.start >= 2

\* ------------------------------------- properties of the source grid extent
\* The offset an element of add_region_offset asks for; None asks for none.
OffsetOf(o) == IF o = None THEN 0 ELSE o[1]

\* C28: with add_region_offset = [ox, oy] the extent of the source grid of
\* MultiSourceCalculator.run is the bounding box enlarged by ox to the west and
\* to the east and by oy to the south and to the north; an element given as
\* None leaves that axis at the bounds of the region.
C28_ExtentEnlargedByOffset ==
  Done("run") =>
    /\ grid.kind = "grid"
    /\ grid.min_long = region.minx - OffsetOf(add_region_offset[1])
    /\ grid.max_long = region.maxx + OffsetOf(add_region_offset[1])
    /\ grid.min_lat = region.miny - OffsetOf(add_region_offset[2])
    /\ grid.max_lat = region.maxy + OffsetOf(add_region_offset[2])

\* ------------------------------------ properties of the resolution argument
\* C29: the cells of the source grid of MultiSourceCalculator.run are as wide
\* and as high as the resolution argument of the call says, and the sources
\* (the cell centres) are that far apart.
C29_CellSizeIsResolutionArgument ==
  (Done("run") /\ grid.kind = "grid") =>
    /\ \A k \in 1..Len(grid.features) :
         /\ grid.features[k].east - grid.features[k].west = resolution[1]
         /\ grid.features[k].north - grid.features[k].south = resolution[2]
    /\ \A i \in 1..(Len(grid.lons) - 1) : grid.lons[i + 1] - grid.lons[i] = resolution[1]
    /\ \A j \in 1..(Len(grid.lats) - 1) : grid.lats[j + 1] - grid.lats[j] = resolution[2]

\* ------------------------------------------- properties of the bias lookup
\* The observation lies in the extent of the source grid:
\* min_long <= longitude < max_long and min_lat <= latitude < max_lat.
InExtent(o) ==
  /\ 2 * grid.min_long <= o.lon2 /\ o.lon2 < 2 * grid.max_long
  /\ 2 * grid.min_lat <= o.lat2 /\ o.lat2 < 2 * grid.max_lat

\* The observations that share the bin of observation k.
OwnBin(k) == {j \in 1..Len(df_obs) : df_obs[j].iy = df_obs[k].iy /\ df_obs[j].ix = df_obs[k].ix}

\* 20 times the 5th percentile of the column densities of the observations J,
\* for up to 21 of them: the least value plus (n - 1) / 20 of the step to the
\* next larger one.
FifthPercentile(J) ==
  LET least == CHOOSE j \in J : \A i \in J : df_obs[j].vcd <= df_obs[i].vcd
      rest  == J \ {least}
      next  == CHOOSE j \in rest : \A i \in rest : df_obs[j].vcd <= df_obs[i].vcd
  IN IF rest = {} THEN 20 * df_obs[least].vcd
     ELSE 20 * df_obs[least].vcd
            + (Cardinality(J) - 1) * (df_obs[next].vcd - df_obs[least].vcd)

\* MultiSourceCalculator.run has computed the bins, and looked up the bias or
\* raised IndexError.
BinsComputed ==
  \/ Binned
  \/ /\ callee = "EOEmissionCalculator.run" /\ calc = MultiSource
     /\ pc = "raised" /\ outcome.kind = "IndexError"

\* C30: every observation inside the extent of the source grid gets bin
\* indices 0 <= ix < len(lons) and 0 <= iy < len(lats), and the bias looked up
\* for it is the 5th percentile of the column densities of its own bin.
C30_InExtentBiasIsOwnBin ==
  /\ BinsComputed =>
       \A k \in 1..Len(df_obs) :
          InExtent(df_obs[k]) =>
            /\ 0 <= df_obs[k].ix /\ df_obs[k].ix < Len(grid.lons)
            /\ 0 <= df_obs[k].iy /\ df_obs[k].iy < Len(grid.lats)
  /\ Binned =>
       /\ Len(bias_per_obs) = Len(df_obs)
       /\ \A k \in 1..Len(df_obs) :
            InExtent(df_obs[k]) => bias_per_obs[k] = <<FifthPercentile(OwnBin(k))>>

\* The bias has been looked up for two observations of one bin inside the
\* extent that have different column densities.
C30_Witness ==
  /\ Binned
  /\ \E k, j \in 1..Len(df_obs) :
       /\ InExtent(df_obs[k]) /\ InExtent(df_obs[j])
       /\ j \in OwnBin(k)
       /\ df_obs[k].vcd < df_obs[j].vcd
       /\ bias_per_obs[j] # <<20 * df_obs[j].vcd>>

====
